---- MODULE Spec2Model ----
(***************************************************************************)
(* Model of the two command-line helpers of frequenz-repo-config:          *)
(*   - cli/version/mike/sort.py : sorts mike's versions.json               *)
(*   - pytest/examples.py       : lints the code examples of docstrings    *)
(* Text is modelled structurally: a JSON document is a list of objects,    *)
(* an object a list of <<key, value>> pairs in textual order; a file name  *)
(* is a sequence of characters; source text is a sequence of lines.        *)
(***************************************************************************)
EXTENDS Integers, Sequences, FiniteSets, TLC

VARIABLES
    tool,       \* which program this behaviour runs: "sort", "path", "imports", "evaluate"
    pc,         \* position of the running program
    argv,       \* sys.argv
    stdin,      \* contents of sys.stdin (a JSON document)
    stdout,     \* what was written to sys.stdout (a JSON document, or Nothing)
    stderr,     \* messages written to sys.stderr
    exitcode,   \* <<status>> once the process has exited, <<>> before
    fs,         \* file name -> contents
    fs0,        \* history: the contents of the files when main() started
    opens,      \* history: the open() calls made, <<name, mode>>
    versions,   \* main()'s local variable `versions`
    ties,       \* how sort_mike_versions places versions whose labels compare equal
    path,       \* the argument of _path_to_import_statement
    pathResult, \* what _path_to_import_statement returned or raised
    code,       \* the argument of _get_import_statements, by its syntax tree
    imports,    \* what _get_import_statements returned
    example,    \* the sybil Example given to evaluate
    pylint,     \* the pylint process evaluate ran: its stdin and its outcome
    evalResult  \* what evaluate returned or raised

sortVars == <<argv, stdin, stdout, stderr, exitcode, fs, fs0, opens, versions, ties>>
pathVars == <<path, pathResult>>
importVars == <<code, imports>>
evalVars == <<example, pylint, evalResult>>

(***************************************************************************)
(* Bounds                                                                  *)
(***************************************************************************)
MaxEntries == 3
MaxArgc == 4
MaxParts == 3
MaxNodes == 3
MaxDocNodes == 2
MaxLine == 8

(***************************************************************************)
(* Generic helpers                                                         *)
(***************************************************************************)
Ok(v) == [ok |-> TRUE, val |-> v]
Raise(e) == [ok |-> FALSE, val |-> e]

SeqToSet(s) == {s[i] : i \in 1..Len(s)}

(***************************************************************************)
(* JSON documents of the sort tool                                         *)
(***************************************************************************)
\* Version labels: semantic-version tags and named channels (branches).
Tag(major, minor) == [kind |-> "tag", major |-> major, minor |-> minor, name |-> ""]
Channel(n) == [kind |-> "channel", major |-> 0, minor |-> 0, name |-> n]
Labels == {Tag(0, 9), Tag(1, 0), Tag(1, 2), Channel("next")}

\* The fields of a MikeVersionInfo record, in declaration order.
MikeVersionInfoFields == <<"title", "version", "aliases">>

\* A JSON object: its keys in textual order and the value of each key (a
\* key that is absent from `keys` has no value; the field holds a filler).
Object(keys, title, version, aliases) ==
    [keys |-> keys, title |-> title, version |-> version, aliases |-> aliases]

\* The textual variants of the entry of one label: the key order of the
\* object differs, and one variant lacks a key.
EntryCanonical(l) == Object(<<"title", "version", "aliases">>, "T", l, <<>>)
EntryReordered(l) == Object(<<"aliases", "version", "title">>, "U", l, <<"latest">>)
EntryNoAliases(l) == Object(<<"version", "title">>, "T", l, <<>>)
EntryPool ==
    {EntryCanonical(l) : l \in Labels} \cup {EntryReordered(l) : l \in Labels}
        \cup {EntryNoAliases(l) : l \in Labels}

\* The contents of a stream or file: JSON text holding a list of objects,
\* text that is not JSON, or nothing at all (no such file, nothing written).
Json(body) == [kind |-> "json", body |-> body]
NotJson == [kind |-> "garbage", body |-> <<>>]
Nothing == [kind |-> "nothing", body |-> <<>>]

\* The manifests a run may find: lists of entries; nothing keeps two
\* entries from carrying the same version label.
Manifests == UNION {[1..n -> EntryPool] : n \in 0..MaxEntries}
Documents == {Json(d) : d \in Manifests} \cup {NotJson}

Files == {"versions.json", "other.json"}
OtherDoc == Json(<<EntryCanonical(Tag(0, 9)), EntryReordered(Channel("next"))>>)

(***************************************************************************)
(* Text as sequences of characters                                         *)
(***************************************************************************)
Dot == "."
SrcName == <<"s", "r", "c">>
DotPy == <<".", "p", "y">>
FromPrefix == <<"f", "r", "o", "m", " ">>
ImportStar == <<" ", "i", "m", "p", "o", "r", "t", " ", "*">>

\* The file names a path is made of.
Names ==
    { SrcName,
      <<"w">>,
      <<"a", ".", "p", "y">>,
      <<"s", "r", "c", ".", "p", "y">>,
      <<".", "p", "y">>,
      <<"a", ".", "p", "y", "c">>,
      <<"a", ".">>,
      <<".", ".">> }

\* The working directory, as the parts below the root.
Cwd == << <<"w">> >>

\* name.rfind("."): the last position of a dot, 0 when there is none.
RFindDot(name) ==
    LET at == {i \in 1..Len(name) : name[i] = Dot}
    IN  IF at = {} THEN 0 ELSE CHOOSE i \in at : \A j \in at : j <= i

\* PurePath.suffix: the last dot-separated piece of the final component,
\* unless the dot leads or ends the name.
Suffix(parts) ==
    IF parts = <<>> THEN <<>>
    ELSE LET name == parts[Len(parts)]
             i == RFindDot(name)
         IN  IF 1 < i /\ i < Len(name) THEN SubSeq(name, i, Len(name)) ELSE <<>>

RECURSIVE JoinDot(_)
\* ".".join(parts)
JoinDot(parts) ==
    IF parts = <<>> THEN <<>>
    ELSE IF Len(parts) = 1 THEN parts[1]
    ELSE parts[1] \o <<Dot>> \o JoinDot(Tail(parts))

\* s[:-3]
DropLast3(s) == SubSeq(s, 1, Len(s) - 3)

\* path.relative_to(Path.cwd()): the parts below the working directory.
RelativeToCwd(parts) ==
    IF Len(parts) >= Len(Cwd) /\ SubSeq(parts, 1, Len(Cwd)) = Cwd
    THEN Ok(SubSeq(parts, Len(Cwd) + 1, Len(parts)))
    ELSE Raise("ValueError")

(***************************************************************************)
(* pytest/examples.py: _path_to_import_statement                           *)
(***************************************************************************)
\* Mutant: the check is str(path).endswith(".py").
ImportOfRelativeEndswith(parts) ==
    LET joined == JoinDot(parts)
    IN  IF Len(joined) < 3 \/ SubSeq(joined, Len(joined) - 2, Len(joined)) # DotPy
        THEN Raise("ValueError")
        ELSE LET kept == IF parts[1] = SrcName THEN Tail(parts) ELSE parts
             IN  Ok(FromPrefix \o DropLast3(JoinDot(kept)) \o ImportStar)

\* The statement for the relative path with the given parts.
ImportOfRelative(parts) ==
    IF Suffix(parts) # DotPy THEN Raise("ValueError")
    ELSE IF parts = <<>> THEN Raise("IndexError")
    ELSE LET kept == IF parts[1] = SrcName THEN Tail(parts) ELSE parts
             module_path == DropLast3(JoinDot(kept))
         IN  Ok(FromPrefix \o module_path \o ImportStar)

\* Mutant: every "src" component is removed, not only a leading one.
PathToImportDroppingEverySrc(p) ==
    LET parts == p.parts
        kept == SelectSeq(parts, LAMBDA c : c # SrcName)
    IN  IF Suffix(parts) # DotPy THEN Raise("ValueError")
        ELSE Ok(FromPrefix \o DropLast3(JoinDot(kept)) \o ImportStar)

_path_to_import_statement(p) ==
    IF p.absolute
    THEN LET rel == RelativeToCwd(p.parts)
         IN  IF rel.ok THEN ImportOfRelative(rel.val) ELSE rel
    ELSE ImportOfRelative(p.parts)

NoResult == [ok |-> FALSE, val |-> "pending"]

(***************************************************************************)
(* Python source text and its syntax tree                                  *)
(***************************************************************************)
\* A line of text: its leading blanks and the rest of it.
Line(indent, text) == [indent |-> indent, text |-> text]
BlankLine == Line(0, <<>>)

\* A syntax tree: node i of the sequence has a kind and a parent (0 is the
\* Module node); the children of a node are in source order.
ImportKinds == {"Import", "ImportFrom"}
CompoundKinds == {"FunctionDef", "ClassDef", "If", "Try"}
NodeKinds == ImportKinds \cup CompoundKinds \cup {"Expr", "alias"}

Ids(t) == [i \in 1..Len(t) |-> i]

\* ast.iter_child_nodes(node)
Children(t, n) == SelectSeq(Ids(t), LAMBDA i : t[i].parent = n)

KindOf(t, n) == IF n = 0 THEN "Module" ELSE t[n].kind

\* The trees ast.parse can give: the names of an import statement are its
\* only children, and only compound statements hold statements.
WellFormedTree(t) ==
    \A i \in 1..Len(t) :
        /\ t[i].parent < i
        /\ IF t[i].kind = "alias"
           THEN KindOf(t, t[i].parent) \in ImportKinds
           ELSE KindOf(t, t[i].parent) \in CompoundKinds \cup {"Module"}

RECURSIVE TreesOfLen(_)
\* The trees of n nodes: a tree of n - 1 nodes and one more node below it.
TreesOfLen(n) ==
    IF n = 0 THEN {<<>>}
    ELSE {t \in {Append(u, nd) : u \in TreesOfLen(n - 1),
                                 nd \in [kind : NodeKinds, parent : 0..(n - 1)]} :
            WellFormedTree(t)}

TreesUpTo(max) == UNION {TreesOfLen(n) : n \in 0..max}
Trees == TreesUpTo(MaxNodes)

RECURSIVE Depth(_, _)
Depth(t, n) == IF t[n].parent = 0 THEN 0 ELSE 1 + Depth(t, t[n].parent)

\* The clause that closes a statement after its body: a try statement has
\* an except or finally clause, on a line of its own at the column of try.
ClauseLines(t, n) ==
    IF t[n].kind = "Try"
    THEN <<Line(4 * Depth(t, n), <<"finally: pass">>)>>
    ELSE <<>>

\* The lines a statement is written on, its body excluded; an import of
\* two or more names from a module is written over two lines, a try
\* statement on its header line and its clause line.
OwnLines(t, n) ==
    LET col == 4 * Depth(t, n)
        k == t[n].kind
    IN  IF k = "alias" THEN <<>>
        ELSE IF k = "Import" THEN <<Line(col, <<"import a">>)>>
        ELSE IF k = "ImportFrom"
             THEN IF Len(Children(t, n)) >= 2
                  THEN <<Line(col, <<"from b import (c,">>), Line(col + 4, <<"d)">>)>>
                  ELSE <<Line(col, <<"from b import c">>)>>
        ELSE IF k = "Expr" THEN <<Line(col, <<"x">>)>>
        ELSE <<Line(col, <<k>>)>> \o ClauseLines(t, n)

\* The lines of a statement that come before its body.
HeaderLines(t, n) ==
    SubSeq(OwnLines(t, n), 1, Len(OwnLines(t, n)) - Len(ClauseLines(t, n)))

RECURSIVE LinesOf(_, _)
\* The text of the statements `order`, one after the other, each with its
\* body: the header, the statements of the body, the closing clause.
LinesOf(t, order) ==
    IF order = <<>> THEN <<>>
    ELSE LET n == Head(order)
         IN  HeaderLines(t, n) \o LinesOf(t, Children(t, n)) \o ClauseLines(t, n)
                \o LinesOf(t, Tail(order))

\* The source text of the tree, line by line.
SourceText(t) == LinesOf(t, Children(t, 0))

RECURSIVE Lineno(_, _)
\* node.lineno, node.end_lineno and node.col_offset as ast.parse sets them:
\* a statement begins after the header of the statement that holds it and
\* after the statements before it in the same body.
Lineno(t, n) ==
    LET p == t[n].parent
        body == Children(t, p)
        at == CHOOSE i \in 1..Len(body) : body[i] = n
        first == IF p = 0 THEN 1 ELSE Lineno(t, p) + Len(HeaderLines(t, p))
    IN  first + Len(LinesOf(t, SubSeq(body, 1, at - 1)))
EndLineno(t, n) == Lineno(t, n) + Len(LinesOf(t, <<n>>)) - 1
ColOffset(t, n) == 4 * Depth(t, n)

\* ast.get_source_segment(code, node): the lines of the node, the first
\* of them from the node's column on.
get_source_segment(text, t, n) ==
    LET seg == SubSeq(text, Lineno(t, n), EndLineno(t, n))
    IN  [i \in 1..Len(seg) |->
            IF i = 1 THEN Line(seg[1].indent - ColOffset(t, n), seg[1].text)
            ELSE seg[i]]

(***************************************************************************)
(* pytest/examples.py: _get_import_statements                              *)
(***************************************************************************)
RECURSIVE WalkImports(_, _, _)
\* The loop over ast.walk(tree): the nodes breadth first, from the deque
\* `todo`; the text of each import statement is appended.
WalkImports(text, t, todo) ==
    IF todo = <<>> THEN <<>>
    ELSE LET node == Head(todo)
             rest == Tail(todo) \o Children(t, node)
         IN  IF KindOf(t, node) \in ImportKinds
             THEN <<get_source_segment(text, t, node)>> \o WalkImports(text, t, rest)
             ELSE WalkImports(text, t, rest)

\* Mutant: only the statements of the module body are looked at.
TopLevelImportsOnly(t) ==
    LET top == SelectSeq(Children(t, 0), LAMBDA n : KindOf(t, n) \in ImportKinds)
    IN  [i \in 1..Len(top) |-> get_source_segment(SourceText(t), t, top[i])]

_get_import_statements(t) == WalkImports(SourceText(t), t, <<0>>)

(***************************************************************************)
(* mkdocs/mike.py: MikeVersionInfo and sort_mike_versions                  *)
(***************************************************************************)
\* MikeVersionInfo(**v): the keyword arguments must be exactly the fields.
MikeVersionInfo(v) ==
    IF SeqToSet(v.keys) = SeqToSet(MikeVersionInfoFields)
    THEN Ok([title |-> v.title, version |-> v.version, aliases |-> v.aliases])
    ELSE Raise("TypeError")

\* The comparator of version labels. The specification describes the sort
\* as one "by a custom comparator" that orders "version labels" (tags and
\* named channels) in a strict total order; which order is not said. The
\* model takes this one: channels are newer than tags, tags compare by major
\* and then minor number, channels by their rank. Being a comparison of
\* labels, it gives 0 exactly for two versions that carry the same label.
ChannelRank(n) == IF n = "next" THEN 1 ELSE 0
LabelKey(l) ==
    IF l.kind = "channel" THEN <<1, ChannelRank(l.name), 0>>
    ELSE <<0, l.major, l.minor>>
compare_mike_version(a, b) ==
    LET ka == LabelKey(a)
        kb == LabelKey(b)
    IN  IF ka[1] # kb[1] THEN ka[1] - kb[1]
        ELSE IF ka[2] # kb[2] THEN ka[2] - kb[2]
        ELSE ka[3] - kb[3]

\* A sort by comparator can tell two versions of the same label apart only
\* by their places in its input. Where it puts them is not said by the
\* specification: the model has a sort that keeps them in input order and
\* one that reverses them, and a run may meet either.
TieRules == {"kept", "reversed"}

Reverse(s) == [i \in 1..Len(s) |-> s[Len(s) + 1 - i]]

RECURSIVE InsertSorted(_, _)
\* `x` placed into the newest-first list `s`, after the entries that do not
\* compare older than it.
InsertSorted(s, x) ==
    IF s = <<>> THEN <<x>>
    ELSE IF compare_mike_version(Head(s).version, x.version) >= 0
         THEN <<Head(s)>> \o InsertSorted(Tail(s), x)
         ELSE <<x>> \o s

RECURSIVE SortNewestFirst(_)
\* The versions newest first, those of one label in the order of `vs`.
SortNewestFirst(vs) ==
    IF vs = <<>> THEN <<>>
    ELSE InsertSorted(SortNewestFirst(SubSeq(vs, 1, Len(vs) - 1)), vs[Len(vs)])

\* The versions, newest first.
sort_mike_versions(vs) ==
    IF ties = "kept" THEN SortNewestFirst(vs) ELSE SortNewestFirst(Reverse(vs))

(***************************************************************************)
(* cli/version/mike/sort.py                                                *)
(***************************************************************************)
\* json.load(stream): the list of objects of the stream, or a decode error.
JsonLoad(content) ==
    IF content.kind = "json" THEN Ok(content.body) ELSE Raise("JSONDecodeError")

\* [MikeVersionInfo(**v) for v in objs]: the first failing entry raises.
BuildAll(objs) ==
    IF \E i \in 1..Len(objs) : ~MikeVersionInfo(objs[i]).ok
    THEN Raise("TypeError")
    ELSE Ok([i \in 1..Len(objs) |-> MikeVersionInfo(objs[i]).val])

\* Mutant: the loaded versions are returned as they were read, unsorted.
LoadWithoutSorting(stream) ==
    LET loaded == JsonLoad(stream)
    IN  IF ~loaded.ok THEN loaded ELSE BuildAll(loaded.val)

_load_and_sort_versions_from(stream) ==
    LET loaded == JsonLoad(stream)
    IN  IF ~loaded.ok THEN loaded
        ELSE LET built == BuildAll(loaded.val)
             IN  IF ~built.ok THEN built ELSE Ok(sort_mike_versions(built.val))

\* dataclasses.asdict(v): the fields in declaration order.
AsDict(v) == Object(MikeVersionInfoFields, v.title, v.version, v.aliases)

\* Mutant: json.dump(..., sort_keys=True), the keys in alphabetical order.
DumpWithSortedKeys(vs) ==
    Json([i \in 1..Len(vs) |->
            Object(<<"aliases", "title", "version">>,
                   vs[i].title, vs[i].version, vs[i].aliases)])

\* What _dump_versions_to(versions, stream) writes to the stream.
_dump_versions_to(vs) == Json([i \in 1..Len(vs) |-> AsDict(vs[i])])

\* Mutant: the last case is `case 3` instead of `case _`.
MatchArgcOnlyThree(n) ==
    IF n = 1 THEN "stdio" ELSE IF n = 2 THEN "file"
    ELSE IF n = 3 THEN "usage" ELSE "none"

\* The branch of `match len(sys.argv)` taken.
MatchArgc(n) ==
    IF n = 1 THEN "stdio" ELSE IF n = 2 THEN "file" ELSE "usage"

\* open(name, "r"): a missing file raises.
OpenRead(name) ==
    IF fs[name].kind = "nothing" THEN Raise("FileNotFoundError") ELSE Ok(fs[name])

\* An exception leaves main(): the traceback goes to stderr, exit status 1.
Crash ==
    /\ pc' = "done"
    /\ stderr' = Append(stderr, "traceback")
    /\ exitcode' = <<1>>

\* case 1: _dump_versions_to(_load_and_sort_versions_from(sys.stdin), sys.stdout)
MainStdio ==
    /\ tool = "sort" /\ pc = "start"
    /\ MatchArgc(Len(argv)) = "stdio"
    /\ LET r == _load_and_sort_versions_from(stdin)
       IN  IF r.ok
           THEN /\ stdout' = _dump_versions_to(r.val)
                /\ pc' = "done"
                /\ exitcode' = <<0>>
                /\ UNCHANGED stderr
           ELSE Crash /\ UNCHANGED stdout
    /\ UNCHANGED <<tool, ties, argv, stdin, fs, fs0, opens, versions, pathVars, importVars, evalVars>>

\* Mutant: one `with` opens the file for reading and for writing at once;
\* opening for writing empties the file, so nothing can be loaded from it.
MainFileReadWhileOpenForWriting ==
    /\ tool = "sort" /\ pc = "start"
    /\ MatchArgc(Len(argv)) = "file"
    /\ IF OpenRead(argv[2]).ok
       THEN /\ opens' = opens \o << <<argv[2], "r">>, <<argv[2], "w">> >>
            /\ fs' = [fs EXCEPT ![argv[2]] = NotJson]
       ELSE /\ opens' = Append(opens, <<argv[2], "r">>)
            /\ UNCHANGED fs
    /\ Crash
    /\ UNCHANGED <<tool, ties, argv, stdin, stdout, fs0, versions, pathVars, importVars, evalVars>>

\* case 2, first `with`: open the file for reading, load and sort, close.
MainFileRead ==
    /\ tool = "sort" /\ pc = "start"
    /\ MatchArgc(Len(argv)) = "file"
    /\ opens' = Append(opens, <<argv[2], "r">>)
    /\ LET f == OpenRead(argv[2])
           r == IF f.ok THEN _load_and_sort_versions_from(f.val) ELSE f
       IN  IF r.ok
           THEN /\ versions' = r.val
                /\ pc' = "loaded"
                /\ UNCHANGED <<stderr, exitcode>>
           ELSE Crash /\ UNCHANGED versions
    /\ UNCHANGED <<tool, ties, argv, stdin, stdout, fs, fs0, pathVars, importVars, evalVars>>

\* Mutant: the sorted versions of case 2 go to sys.stdout, as in case 1.
MainFileWriteToStdout ==
    /\ tool = "sort" /\ pc = "loaded"
    /\ stdout' = _dump_versions_to(versions)
    /\ pc' = "done"
    /\ exitcode' = <<0>>
    /\ UNCHANGED <<tool, ties, argv, stdin, stderr, fs, fs0, opens, versions, pathVars, importVars, evalVars>>

\* case 2, second `with`: open the file for writing and dump the versions.
MainFileWrite ==
    /\ tool = "sort" /\ pc = "loaded"
    /\ opens' = Append(opens, <<argv[2], "w">>)
    /\ fs' = [fs EXCEPT ![argv[2]] = _dump_versions_to(versions)]
    /\ pc' = "done"
    /\ exitcode' = <<0>>
    /\ UNCHANGED <<tool, ties, argv, stdin, stdout, stderr, fs0, versions, pathVars, importVars, evalVars>>

\* case _: print the usage text to stderr and sys.exit(2).
MainUsage ==
    /\ tool = "sort" /\ pc = "start"
    /\ MatchArgc(Len(argv)) = "usage"
    /\ stderr' = Append(stderr, "usage")
    /\ exitcode' = <<2>>
    /\ pc' = "done"
    /\ UNCHANGED <<tool, ties, argv, stdin, stdout, fs, fs0, opens, versions, pathVars, importVars, evalVars>>

\* The call of _path_to_import_statement(path).
CallPathToImport ==
    /\ tool = "path" /\ pc = "start"
    /\ pathResult' = _path_to_import_statement(path)
    /\ pc' = "done"
    /\ UNCHANGED <<tool, path, sortVars, importVars, evalVars>>

(***************************************************************************)
(* pytest/examples.py: _CustomPythonCodeBlockParser.evaluate               *)
(***************************************************************************)
_PYLINT_DISABLE_COMMENT(word) ==
    Line(0, <<"# pylint: ", word,
              "=unused-import,wildcard-import,unused-wildcard-import">>)

\* The lines of _FORMAT_STRING: the text starts with a line break, and the
\* four fields stand on lines of their own.
_FORMAT_STRING ==
    << "", "# Generated auto-imports for code example", "{disable_pylint}",
       "{imports}", "{enable_pylint}", "", "{code}" >>

\* s.count("\n") of a text given by its lines.
CountNewlines(lines) == Len(lines) - 1

RECURSIVE Flatten(_)
\* "\n".join(texts): the lines of the texts, one text after the other.
Flatten(texts) ==
    IF texts = <<>> THEN <<>> ELSE Head(texts) \o Flatten(Tail(texts))

RECURSIVE FormatLines(_, _)
\* template.format(**values): each field replaced by the lines of its value.
FormatLines(template, values) ==
    IF template = <<>> THEN <<>>
    ELSE LET l == Head(template)
             here == IF l \in DOMAIN values THEN values[l]
                     ELSE IF l = "" THEN <<BlankLine>>
                     ELSE <<Line(0, <<l>>)>>
         IN  here \o FormatLines(Tail(template), values)

\* textwrap.dedent(text): the common margin of the lines that are not blank
\* is removed, and blank lines lose their blanks.
Dedent(lines) ==
    LET filled == {i \in 1..Len(lines) : lines[i].text # <<>>}
        margin == IF filled = {} THEN 0
                  ELSE CHOOSE m \in {lines[i].indent : i \in filled} :
                         \A i \in filled : m <= lines[i].indent
    IN  [i \in 1..Len(lines) |->
            IF i \in filled THEN Line(lines[i].indent - margin, lines[i].text)
            ELSE BlankLine]

\* text[text.find("\n") + 1 :]: the text after its first line (all of it
\* when it has one line only).
AfterFirstLine(lines) == IF Len(lines) > 1 THEN Tail(lines) ELSE lines

\* sybil's pad(source, line): line * "\n" + source.
pad(source, n) ==
    IF n > 0 THEN [i \in 1..n |-> BlankLine] \o source ELSE source

RECURSIVE SplitLines(_)
\* str.splitlines() of a text given by its pieces, "\n" being a line break.
SplitLines(out) ==
    IF out = <<>> THEN <<>>
    ELSE LET breaks == {i \in 1..Len(out) : out[i] = "\n"}
         IN  IF breaks = {} THEN <<out>>
             ELSE LET b == CHOOSE i \in breaks : \A j \in breaks : i <= j
                  IN  <<SubSeq(out, 1, b - 1)>> \o SplitLines(SubSeq(out, b + 1, Len(out)))

\* _validate_with_pylint(source, path, params), pylint ending as `outcome`:
\* the lines pylint printed when its exit status is not zero.
_validate_with_pylint(outcome) ==
    IF ~outcome.found THEN Raise("FileNotFoundError")
    ELSE IF outcome.returncode # 0 THEN Ok(SplitLines(outcome.stdout))
    ELSE Ok(<<>>)

\* Mutant: the wildcard import of the file is put first.
ImportHeaderWildcardFirst(ex) ==
    LET own == _path_to_import_statement([absolute |-> FALSE, parts |-> ex.path])
    IN  IF ~own.ok THEN own
        ELSE Ok(<< <<Line(0, own.val)>> >> \o _get_import_statements(ex.document))

\* import_header: the import statements of the document, then the wildcard
\* import of the file itself.
ImportHeader(ex) ==
    LET own == _path_to_import_statement([absolute |-> FALSE, parts |-> ex.path])
    IN  IF ~own.ok THEN own
        ELSE Ok(_get_import_statements(ex.document) \o << <<Line(0, own.val)>> >>)

\* example_code: the region dedented, without the line of the opening fence.
ExampleCode(ex) == AfterFirstLine(Dedent(ex.region))

\* example_with_imports
ExampleWithImports(header, ex) ==
    FormatLines(_FORMAT_STRING,
        [x \in {"{disable_pylint}", "{imports}", "{enable_pylint}", "{code}"} |->
            IF x = "{disable_pylint}" THEN <<_PYLINT_DISABLE_COMMENT("disable")>>
            ELSE IF x = "{imports}" THEN Flatten(header)
            ELSE IF x = "{enable_pylint}" THEN <<_PYLINT_DISABLE_COMMENT("enable")>>
            ELSE ExampleCode(ex)])

\* source: the text handed to pylint.
PaddedSource(header, ex) ==
    pad(ExampleWithImports(header, ex),
        ex.line - CountNewlines(Flatten(header)) - CountNewlines(_FORMAT_STRING))

None == [kind |-> "None", snippet |-> <<>>, output |-> <<>>]
Failure(snippet, output) == [kind |-> "message", snippet |-> snippet, output |-> output]
Raised(e) == [kind |-> e, snippet |-> <<>>, output |-> <<>>]
Pending == [kind |-> "pending", snippet |-> <<>>, output |-> <<>>]

NoPylint == [ran |-> FALSE, input |-> <<>>, found |-> FALSE, returncode |-> 0, stdout |-> <<>>]

\* How the pylint process can end: not installed, or an exit status and
\* what it printed to its standard output.
PylintOutcomes ==
    {[found |-> FALSE, returncode |-> 0, stdout |-> <<>>]} \cup
    [found : {TRUE}, returncode : {0, 16, 32},
     stdout : {<<>>, <<"E0602", "\n">>, <<"C0103", "\n", "W0611">>}]

\* evaluate(example)
Evaluate ==
    /\ tool = "evaluate" /\ pc = "start"
    /\ pc' = "done"
    /\ LET header == ImportHeader(example)
       IN  IF ~header.ok
           THEN evalResult' = Raised(header.val) /\ UNCHANGED pylint
           ELSE \E outcome \in PylintOutcomes :
                /\ pylint' = [ran |-> TRUE,
                              input |-> PaddedSource(header.val, example),
                              found |-> outcome.found,
                              returncode |-> outcome.returncode,
                              stdout |-> outcome.stdout]
                /\ LET response == _validate_with_pylint(outcome)
                   IN  evalResult' =
                        IF ~response.ok THEN Raised(response.val)
                        ELSE IF Len(response.val) > 0
                             THEN Failure(ExampleWithImports(header.val, example),
                                          response.val)
                             ELSE None
    /\ UNCHANGED <<tool, example, sortVars, pathVars, importVars>>

\* The call of _get_import_statements(code).
CallGetImportStatements ==
    /\ tool = "imports" /\ pc = "start"
    /\ imports' = _get_import_statements(code)
    /\ pc' = "done"
    /\ UNCHANGED <<tool, code, sortVars, pathVars, evalVars>>

(***************************************************************************)
(* Specifications: one per program                                         *)
(***************************************************************************)
vars == <<tool, pc, sortVars, pathVars, importVars, evalVars>>

IdleSort ==
    /\ argv = <<>> /\ stdin = Nothing /\ stdout = Nothing /\ stderr = <<>>
    /\ exitcode = <<>> /\ fs = [f \in Files |-> Nothing] /\ fs0 = fs
    /\ opens = <<>> /\ versions = <<>> /\ ties = "kept"

NoExample == [document |-> <<>>, line |-> 0, region |-> <<>>, path |-> <<>>]
IdleEval == example = NoExample /\ pylint = NoPylint /\ evalResult = Pending

IdleImports == code = <<>> /\ imports = <<>>

IdlePath == path = [absolute |-> FALSE, parts |-> <<>>] /\ pathResult = NoResult

\* The command lines: the program name, then up to MaxArgc - 1 arguments,
\* the first of which names the file.
CommandLines ==
    {<<"sort">>} \cup
    {<<"sort", f>> \o [i \in 1..n |-> "extra"] : f \in Files, n \in 0..(MaxArgc - 2)}

InitSort ==
    /\ tool = "sort" /\ pc = "start"
    /\ argv \in CommandLines
    /\ \E doc \in Documents \cup {Nothing} :
        /\ stdin = IF Len(argv) = 1 THEN doc ELSE OtherDoc
        /\ fs = [f \in Files |->
                    IF Len(argv) > 1 /\ f = argv[2] THEN doc ELSE OtherDoc]
    /\ fs0 = fs
    /\ stdout = Nothing
    /\ stderr = <<>>
    /\ exitcode = <<>>
    /\ opens = <<>>
    /\ versions = <<>>
    /\ ties \in TieRules
    /\ IdlePath /\ IdleImports /\ IdleEval

NextSort == MainStdio \/ MainFileRead \/ MainFileWrite \/ MainUsage

SpecSort == InitSort /\ [][NextSort]_vars

Paths ==
    [absolute : BOOLEAN, parts : UNION {[1..n -> Names] : n \in 0..MaxParts}]

InitPath ==
    /\ tool = "path" /\ pc = "start"
    /\ path \in Paths
    /\ pathResult = NoResult
    /\ IdleSort /\ IdleImports /\ IdleEval

NextPath == CallPathToImport

SpecPath == InitPath /\ [][NextPath]_vars

InitImports ==
    /\ tool = "imports" /\ pc = "start"
    /\ code \in Trees
    /\ imports = <<>>
    /\ IdleSort /\ IdlePath /\ IdleEval

NextImports == CallGetImportStatements

SpecImports == InitImports /\ [][NextImports]_vars

\* The regions of the examples: the line of the opening fence, the lines of
\* the code and the empty piece after the last line break.
Regions ==
    { << Line(4, <<"(fence) python">>), Line(4, <<"print(x)">>), BlankLine >>,
      << Line(0, <<"(fence) python">>), Line(0, <<"if x:">>), Line(4, <<>>),
         Line(4, <<"y = 1">>), BlankLine >> }

\* The paths of the documents, relative to the working directory.
ExamplePaths ==
    { <<SrcName, <<"a", ".", "p", "y">> >>, << <<"a", ".">> >> }

\* The examples sybil finds: a fence is never on the first line of a file.
Examples ==
    [document : TreesUpTo(MaxDocNodes), line : 2..MaxLine,
     region : Regions, path : ExamplePaths]

InitEval ==
    /\ tool = "evaluate" /\ pc = "start"
    /\ example \in Examples
    /\ pylint = NoPylint
    /\ evalResult = Pending
    /\ IdleSort /\ IdlePath /\ IdleImports

NextEval == Evaluate

SpecEval == InitEval /\ [][NextEval]_vars

\* Any of the programs.
Init == InitSort \/ InitPath \/ InitImports \/ InitEval

Next == NextSort \/ NextPath \/ NextImports \/ NextEval

Spec == Init /\ [][Next]_vars

(***************************************************************************)
(* Claims about the sort tool                                              *)
(***************************************************************************)
SortDone(n) == tool = "sort" /\ pc = "done" /\ Len(argv) = n

\* The JSON text of the sorted version records of the objects `objs`.
SortedJsonOf(objs) ==
    LET recs == [i \in 1..Len(objs) |-> MikeVersionInfo(objs[i]).val]
        sorted == sort_mike_versions(recs)
    IN  Json([i \in 1..Len(sorted) |-> AsDict(sorted[i])])

Loadable(content) ==
    /\ content.kind = "json"
    /\ \A i \in 1..Len(content.body) : MikeVersionInfo(content.body[i]).ok

\* C1: after a normal run with exactly one argument, the named file holds
\* the JSON serialisation of sort_mike_versions applied to the entries the
\* same file held before the run (and no other file has changed).
C1_FileReplacedWithSorted ==
    (SortDone(2) /\ exitcode = <<0>>) =>
        /\ Loadable(fs0[argv[2]])
        /\ fs[argv[2]] = SortedJsonOf(fs0[argv[2]].body)
        /\ \A f \in Files \ {argv[2]} : fs[f] = fs0[f]
        /\ stdout = Nothing

C1_Witness ==
    /\ SortDone(2) /\ exitcode = <<0>>
    /\ Len(fs0[argv[2]].body) = 3
    /\ fs[argv[2]] # fs0[argv[2]]
    /\ fs[argv[2]].body[1].version = Channel("next")

\* C2: with no arguments the entries are read from stdin and the sorted
\* versions are printed to stdout; no file is opened, read or written.
C2_StdinToStdout ==
    (tool = "sort" /\ Len(argv) = 1) =>
        /\ opens = <<>>
        /\ fs = fs0
        /\ MatchArgc(Len(argv)) = "stdio"
        /\ (pc = "done" /\ exitcode = <<0>>) =>
                Loadable(stdin) /\ stdout = SortedJsonOf(stdin.body)
        /\ (pc = "done" /\ Loadable(stdin)) => exitcode = <<0>>

C2_Witness ==
    /\ SortDone(1) /\ exitcode = <<0>>
    /\ Len(stdin.body) = 3
    /\ stdout # stdin
    /\ stdout.body[3].version = Tag(0, 9)

\* C3: with more than one argument the usage text is printed to stderr and
\* the program exits with a non-zero status, whatever the number of arguments;
\* nothing is read or written.
C3_UsageOnExtraArguments ==
    (tool = "sort" /\ Len(argv) > 2) =>
        /\ MatchArgc(Len(argv)) = "usage"
        /\ pc = "start" => ENABLED MainUsage
        /\ pc \in {"start", "done"}
        /\ pc = "done" =>
            /\ stderr = <<"usage">>
            /\ exitcode # <<>> /\ exitcode # <<0>>
            /\ stdout = Nothing /\ fs = fs0 /\ opens = <<>>

C3_Witness ==
    /\ tool = "sort" /\ pc = "done" /\ Len(argv) = MaxArgc
    /\ stderr = <<"usage">> /\ exitcode = <<2>>

\* What the tool (load, sort, dump) writes for the input text `content`.
ToolOutput(content) == _dump_versions_to(_load_and_sort_versions_from(content).val)

\* The entries of `objs` in the order given by the permutation `p`.
Permuted(objs, p) == [i \in 1..Len(objs) |-> objs[p[i]]]

\* The input and the output of a finished run of the tool.
RunInput == IF Len(argv) = 1 THEN stdin ELSE fs0[argv[2]]
RunOutput == IF Len(argv) = 1 THEN stdout ELSE fs[argv[2]]

SortedRecordsOf(objs) ==
    sort_mike_versions([i \in 1..Len(objs) |-> MikeVersionInfo(objs[i]).val])

\* C11: with one argument the file is opened for writing only after it was
\* read, closed, parsed and sorted: until then the only open() call is the
\* one for reading and no file has changed; and when loading fails, main()
\* ends with an error, the file was never opened for writing and the
\* contents of every file are what they were.
C11_WriteOnlyAfterLoad ==
    (tool = "sort" /\ Len(argv) = 2) =>
        LET reading == <<argv[2], "r">>
            writing == <<argv[2], "w">>
        IN  /\ pc = "start" => opens = <<>> /\ fs = fs0
            /\ pc = "loaded" =>
                /\ opens = <<reading>> /\ fs = fs0 /\ exitcode = <<>>
                /\ Loadable(fs0[argv[2]])
                /\ versions = SortedRecordsOf(fs0[argv[2]].body)
            /\ (\E i \in 1..Len(opens) : opens[i][2] = "w") =>
                /\ opens = <<reading, writing>>
                /\ Loadable(fs0[argv[2]])
                /\ versions = SortedRecordsOf(fs0[argv[2]].body)
            /\ (pc = "done" /\ ~Loadable(fs0[argv[2]])) =>
                /\ exitcode = <<1>> /\ stderr = <<"traceback">>
                /\ opens = <<reading>>
                /\ fs = fs0
                /\ stdout = Nothing

C11_Witness ==
    /\ SortDone(2) /\ exitcode = <<1>>
    /\ fs0[argv[2]].kind = "json" /\ Len(fs0[argv[2]].body) = 3
    /\ fs0[argv[2]].body[1] = EntryReordered(Tag(1, 0))
    /\ fs0[argv[2]].body[3] = EntryNoAliases(Channel("next"))
    /\ fs = fs0 /\ opens = << <<argv[2], "r">> >>

(***************************************************************************)
(* Claims about _path_to_import_statement                                  *)
(***************************************************************************)
PathDone == tool = "path" /\ pc = "done"

\* The final component ends in ".py" after at least one other character:
\* what "the suffix is .py" means for a name.
IsPythonFile(parts) ==
    /\ parts # <<>>
    /\ LET name == parts[Len(parts)]
       IN  Len(name) > 3 /\ SubSeq(name, Len(name) - 2, Len(name)) = DotPy

\* C8: for a relative path the function raises ValueError (and never the
\* IndexError of indexing empty parts) when the suffix is not ".py", the
\* empty path and a bare "src" included, and it returns a statement when
\* the suffix is ".py".
C8_ValueErrorUnlessPythonFile ==
    (PathDone /\ ~path.absolute) =>
        /\ ~IsPythonFile(path.parts) => pathResult = Raise("ValueError")
        /\ IsPythonFile(path.parts) => pathResult.ok

C8_Witness ==
    /\ PathDone /\ ~path.absolute
    /\ path.parts = <<SrcName, DotPy>>
    /\ pathResult = Raise("ValueError")

\* The module named by the parts of a ".py" path: a leading "src" dropped,
\* the ".py" taken off the final component, the components joined by dots.
ModuleOf(parts) ==
    LET kept == IF parts[1] = SrcName THEN Tail(parts) ELSE parts
        stem == DropLast3(kept[Len(kept)])
    IN  JoinDot([i \in 1..Len(kept) |-> IF i = Len(kept) THEN stem ELSE kept[i]])

\* C9: for a relative ".py" path the result is "from M import *", M being
\* the components joined by ".", without the trailing ".py" and without a
\* leading "src"; a "src" at any later position stays.
C9_ImportStatementOfPath ==
    (PathDone /\ ~path.absolute /\ IsPythonFile(path.parts)) =>
        /\ pathResult.ok
        /\ pathResult.val = FromPrefix \o ModuleOf(path.parts) \o ImportStar
        /\ Len(ModuleOf(path.parts)) =
                Len(JoinDot(path.parts)) - 3
                    - (IF path.parts[1] = SrcName THEN Len(SrcName) + 1 ELSE 0)

C9_Witness ==
    /\ PathDone /\ ~path.absolute
    /\ path.parts = <<SrcName, SrcName, <<"a", ".", "p", "y">> >>
    /\ pathResult = Ok(FromPrefix \o <<"s", "r", "c", ".", "a">> \o ImportStar)

(***************************************************************************)
(* Claims about _get_import_statements                                     *)
(***************************************************************************)
ImportNodes(t) == {n \in 1..Len(t) : t[n].kind \in ImportKinds}

\* The text of statement n as it is written, from its first character on.
StatementText(t, n) ==
    LET own == OwnLines(t, n)
    IN  [i \in 1..Len(own) |-> IF i = 1 THEN Line(0, own[1].text) ELSE own[i]]

\* C10: the result holds, for every text, as many entries as there are
\* import statements with that text, at any depth: one entry per import
\* node, each the statement's source text, and nothing else.
C10_OneEntryPerImport ==
    (tool = "imports" /\ pc = "done") =>
        /\ Len(imports) = Cardinality(ImportNodes(code))
        /\ \A n \in ImportNodes(code) :
            Cardinality({i \in 1..Len(imports) : imports[i] = StatementText(code, n)})
                = Cardinality({m \in ImportNodes(code) :
                                StatementText(code, m) = StatementText(code, n)})

C10_Witness ==
    /\ tool = "imports" /\ pc = "done"
    /\ Len(code) = 3
    /\ code[1].kind = "ClassDef" /\ code[2].kind = "Try" /\ code[2].parent = 1
    /\ code[3].kind = "Import" /\ code[3].parent = 2
    /\ imports = << <<Line(0, <<"import a">>)>> >>

(***************************************************************************)
(* Claims about evaluate                                                   *)
(***************************************************************************)
\* evaluate has handed a source to pylint, and pylint ran and ended.
PylintRan == tool = "evaluate" /\ pc = "done" /\ pylint.ran /\ pylint.found

\* The line of the source handed to pylint that holds the first line of
\* the example's code (the code is the end of the source).
CodeStartLine == Len(pylint.input) - Len(ExampleCode(example)) + 1

\* C5: in the source handed to pylint the first line of the example's code
\* is line example.line + 1, the line after the opening fence, whatever the
\* length of the import header and wherever the example is in the file.
C5_CodeOnLineAfterFence ==
    PylintRan =>
        /\ CodeStartLine = example.line + 1
        /\ pylint.input[example.line + 1] = ExampleCode(example)[1]

\* C6: evaluate returns None exactly when pylint exits with status zero,
\* and when the status is not zero it returns the failure message, made of
\* the generated snippet and of pylint's output.
C6_NoneIffPylintSucceeds ==
    PylintRan =>
        /\ (evalResult = None) <=> (pylint.returncode = 0)
        /\ pylint.returncode # 0 =>
            /\ evalResult.kind = "message"
            /\ evalResult.output = SplitLines(pylint.stdout)
            /\ evalResult.snippet =
                SubSeq(pylint.input, Len(pylint.input) - Len(evalResult.snippet) + 1,
                       Len(pylint.input))

\* The only line of the source equal to `l` (0 when there is none or several).
LineAt(l) ==
    LET at == {i \in 1..Len(pylint.input) : pylint.input[i] = l}
    IN  IF Cardinality(at) = 1 THEN CHOOSE i \in at : TRUE ELSE 0

\* The wildcard import of the document of the example.
WildcardImport == Line(0, FromPrefix \o ModuleOf(example.path) \o ImportStar)

\* C7: in the source handed to pylint, the lines between the "disable" and
\* the "enable" comment are the import statements extracted from the
\* document, in extraction order, and then the one wildcard import of the
\* document; after the "enable" comment come an empty line and the code.
C7_HeaderIsImportsThenWildcard ==
    (tool = "evaluate" /\ pc = "done" /\ pylint.ran) =>
        LET d == LineAt(_PYLINT_DISABLE_COMMENT("disable"))
            e == LineAt(_PYLINT_DISABLE_COMMENT("enable"))
            extracted == Flatten(_get_import_statements(example.document))
        IN  /\ 0 < d /\ d < e
            /\ SubSeq(pylint.input, d + 1, e - 2) = extracted
            /\ pylint.input[e - 1] = WildcardImport
            /\ e - d - 1 = Len(extracted) + 1
            /\ pylint.input[e + 1] = BlankLine
            /\ SubSeq(pylint.input, e + 2, Len(pylint.input)) = ExampleCode(example)
            /\ e + 2 = CodeStartLine

C7_Witness ==
    /\ tool = "evaluate" /\ pc = "done" /\ pylint.ran
    /\ Len(example.document) = 2
    /\ example.document[1].kind = "FunctionDef"
    /\ example.document[2].kind = "ImportFrom" /\ example.document[2].parent = 1
    /\ example.line = MaxLine
    /\ SubSeq(pylint.input, MaxLine - 4, MaxLine - 2) =
        << _PYLINT_DISABLE_COMMENT("disable"), Line(0, <<"from b import c">>),
           WildcardImport >>

====
